---- MODULE Spec2Model ----
(***************************************************************************)
(* Model of examples/designer/plugins/widgets/bubbleswidget.py:           *)
(* the BubblesWidget custom widget and its Bubble objects.                 *)
(*                                                                         *)
(* Lengths are in pixels.  All sampled inputs are integers and the sampled *)
(* viewport sizes are multiples of 8, so that every value the code         *)
(* computes in floating point (radius + 4.0, width()/8.0, y - speed) is an *)
(* integer and the arithmetic below is exact.                              *)
(*                                                                         *)
(* self.update(...) only posts a paint request to the toolkit; it changes  *)
(* no field of the widget or of a bubble and is not part of the state.     *)
(***************************************************************************)
EXTENDS Integers, Sequences, FiniteSets

\* ---------------------------------------------------------------- bounds
\* Number of Bubble objects constructed in one behaviour (object identities).
MaxCreated == 2
\* Largest value passed to setBubbles.
MaxValue == 2

\* ------------------------------------------------------- program constants
MinimumSize == 200        \* setMinimumSize(QtCore.QSize(200, 200))
StartRadius == 4          \* Bubble(..., 4.0, ...) in mousePressEvent
RadiusStep == 4           \* self.newBubble.radius + 4.0
CapDivisor == 8           \* self.width()/8.0, self.height()/8.0

\* ------------------------------------------------------------ input samples
\* Widget sizes the toolkit can give the widget (never below the minimum size).
\* <<width, height>>: the cap is set by the width in the first, by the height
\* in the second.
Sizes == {<<200, 320>>, <<320, 208>>}
\* Pointer positions carried by mouse events (QPoint, integer coordinates).
Points == {<<100, 10>>, <<10, 3>>}
Buttons == {"LeftButton", "RightButton"}
\* Regions carried by paint events (event.rect(), <<x, y, width, height>>).
\* The second only touches the bounding box of a bubble of radius 4 at (0, 0).
PaintRects == {<<0, 0, 50, 50>>, <<4, 4, 196, 196>>}
\* Samples of 1.0 + random.random() * 7, a value of [1, 8).
Speeds == {7}
\* Samples of randomColor(): red, green, blue of [205, 255), alpha of [91, 191).
Colors == {<<205, 230, 254, 91>>}
White == <<255, 255, 255, 255>>
\* Samples of the random bubbles of setBubbles: position (a point of the
\* smallest viewport, so inside every viewport), radius of [4, 24), speed of [1, 8).
\* with the two colours drawn for it.
RandomBubbles ==
    { [x |-> 0, y |-> 0, radius |-> 4, speed |-> 1,
       innerColor |-> <<205, 230, 254, 91>>, outerColor |-> <<254, 205, 210, 190>>],
      [x |-> 199, y |-> 3, radius |-> 5, speed |-> 7,
       innerColor |-> <<254, 205, 210, 190>>, outerColor |-> <<205, 230, 254, 91>>] }

None == [none |-> TRUE]

Min(a, b) == IF a <= b THEN a ELSE b
Max(a, b) == IF a >= b THEN a ELSE b

VARIABLES
    bubbles,            \* self.bubbles: sequence of Bubble
    newBubble,          \* self.newBubble: None or the Bubble being sized
    animationTimer,     \* self.animation_timer is active
    bubbleTimer,        \* self.bubbleTimer is active
    width, height,      \* self.width(), self.height()
    emitted,            \* signals emitted by the last handler, in order
    nextId,             \* identity of the next Bubble object constructed
    painted             \* ellipses drawn on the painter by the last handler, in order

vars == <<bubbles, newBubble, animationTimer, bubbleTimer, width, height,
          emitted, nextId, painted>>

\* ------------------------------------------------------------------ Bubble
\* Bubble.updateBrush: the radial gradient the brush is built from.
Gradient(radius, innerColor, outerColor) ==
    [ center |-> <<radius, radius>>, radius |-> radius,
      stops |-> << <<0, White>>, <<25, innerColor>>, <<100, outerColor>> >> ]

updateBrush(b) ==
    [b EXCEPT !.brush = Gradient(b.radius, b.innerColor, b.outerColor)]

\* Bubble.__init__
Bubble(id, x, y, radius, speed, innerColor, outerColor) ==
    updateBrush([ id |-> id, x |-> x, y |-> y, radius |-> radius,
                  speed |-> speed, innerColor |-> innerColor,
                  outerColor |-> outerColor, brush |-> None ])

BubbleLeft == <<"bubbleLeft">>
BubblesRemaining(n) == <<"bubblesRemaining", n>>

\* ----------------------------------------------------------- BubblesWidget
Init ==
    /\ bubbles = <<>>
    /\ newBubble = None
    /\ animationTimer = TRUE
    /\ bubbleTimer = FALSE
    /\ \E size \in Sizes : width = size[1] /\ height = size[2]
    /\ emitted = <<>>
    /\ nextId = 1
    /\ painted = <<>>

\* The toolkit resizes the widget (never below its minimum size).
Resize(w, h) ==
    /\ w >= MinimumSize /\ h >= MinimumSize
    /\ width' = w
    /\ height' = h
    /\ emitted' = <<>>
    /\ UNCHANGED <<bubbles, newBubble, animationTimer, bubbleTimer, nextId>>

\* mousePressEvent with the coordinates of the press point exchanged.
mousePressEventTransposed(button, pos, speed, c1, c2) ==
    IF button = "LeftButton" /\ newBubble = None
    THEN /\ nextId <= MaxCreated
         /\ newBubble' = Bubble(nextId, pos[2], pos[1], StartRadius, speed, c1, c2)
         /\ nextId' = nextId + 1
         /\ bubbleTimer' = TRUE
         /\ emitted' = <<>>
         /\ UNCHANGED <<bubbles, animationTimer, width, height>>
    ELSE /\ emitted' = <<>>
         /\ UNCHANGED <<bubbles, newBubble, animationTimer, bubbleTimer,
                        width, height, nextId>>

\* mousePressEvent without the test that no bubble is pending.
mousePressEventNoPendingTest(button, pos, speed, c1, c2) ==
    IF button = "LeftButton"
    THEN /\ nextId <= MaxCreated
         /\ newBubble' = Bubble(nextId, pos[1], pos[2], StartRadius, speed, c1, c2)
         /\ nextId' = nextId + 1
         /\ bubbleTimer' = TRUE
         /\ emitted' = <<>>
         /\ UNCHANGED <<bubbles, animationTimer, width, height>>
    ELSE /\ emitted' = <<>>
         /\ UNCHANGED <<bubbles, newBubble, animationTimer, bubbleTimer,
                        width, height, nextId>>

\* mousePressEvent that does not start the growth timer.
mousePressEventNoTimer(button, pos, speed, c1, c2) ==
    IF button = "LeftButton" /\ newBubble = None
    THEN /\ nextId <= MaxCreated
         /\ newBubble' = Bubble(nextId, pos[1], pos[2], StartRadius, speed, c1, c2)
         /\ nextId' = nextId + 1
         /\ emitted' = <<>>
         /\ UNCHANGED <<bubbles, animationTimer, bubbleTimer, width, height>>
    ELSE /\ emitted' = <<>>
         /\ UNCHANGED <<bubbles, newBubble, animationTimer, bubbleTimer,
                        width, height, nextId>>

mousePressEvent(button, pos, speed, c1, c2) ==
    IF button = "LeftButton" /\ newBubble = None
    THEN /\ nextId <= MaxCreated
         /\ newBubble' = Bubble(nextId, pos[1], pos[2], StartRadius, speed, c1, c2)
         /\ nextId' = nextId + 1
         /\ bubbleTimer' = TRUE
         /\ emitted' = <<>>
         /\ UNCHANGED <<bubbles, animationTimer, width, height>>
    ELSE /\ emitted' = <<>>
         /\ UNCHANGED <<bubbles, newBubble, animationTimer, bubbleTimer,
                        width, height, nextId>>

\* mouseMoveEvent that follows the pointer horizontally only.
mouseMoveEventHorizontal(pos) ==
    /\ newBubble' = IF newBubble # None
                    THEN [newBubble EXCEPT !.x = pos[1]]
                    ELSE newBubble
    /\ emitted' = <<>>
    /\ UNCHANGED <<bubbles, animationTimer, bubbleTimer, width, height, nextId>>

mouseMoveEvent(pos) ==
    /\ newBubble' = IF newBubble # None
                    THEN [newBubble EXCEPT !.x = pos[1], !.y = pos[2]]
                    ELSE newBubble
    /\ emitted' = <<>>
    /\ UNCHANGED <<bubbles, animationTimer, bubbleTimer, width, height, nextId>>

\* mouseReleaseEvent that leaves the growth timer running.
mouseReleaseEventKeepsTimer(button) ==
    IF newBubble # None
    THEN /\ bubbles' = Append(bubbles, newBubble)
         /\ newBubble' = None
         /\ emitted' = << BubblesRemaining(Len(bubbles')) >>
         /\ UNCHANGED <<animationTimer, bubbleTimer, width, height, nextId>>
    ELSE /\ emitted' = <<>>
         /\ UNCHANGED <<bubbles, newBubble, animationTimer, bubbleTimer,
                        width, height, nextId>>

mouseReleaseEvent(button) ==
    IF newBubble # None
    THEN /\ bubbles' = Append(bubbles, newBubble)
         /\ newBubble' = None
         /\ bubbleTimer' = FALSE
         /\ emitted' = << BubblesRemaining(Len(bubbles')) >>
         /\ UNCHANGED <<animationTimer, width, height, nextId>>
    ELSE /\ emitted' = <<>>
         /\ UNCHANGED <<bubbles, newBubble, animationTimer, bubbleTimer,
                        width, height, nextId>>

\* expandBubble without the call of updateBrush.
expandBubbleStaleBrush ==
    /\ newBubble' =
          IF newBubble # None
          THEN [newBubble EXCEPT !.radius =
                   Min(Min(newBubble.radius + RadiusStep, width \div CapDivisor),
                       height \div CapDivisor)]
          ELSE newBubble
    /\ emitted' = <<>>
    /\ UNCHANGED <<bubbles, animationTimer, bubbleTimer, width, height, nextId>>

\* expandBubble with the increment subtracted.
expandBubbleShrinks ==
    /\ newBubble' =
          IF newBubble # None
          THEN updateBrush([newBubble EXCEPT !.radius =
                   Min(Min(newBubble.radius - RadiusStep, width \div CapDivisor),
                       height \div CapDivisor)])
          ELSE newBubble
    /\ emitted' = <<>>
    /\ UNCHANGED <<bubbles, animationTimer, bubbleTimer, width, height, nextId>>

\* expandBubble that clamps to the width only.
expandBubbleWidthOnly ==
    /\ newBubble' =
          IF newBubble # None
          THEN updateBrush([newBubble EXCEPT !.radius =
                   Min(newBubble.radius + RadiusStep, width \div CapDivisor)])
          ELSE newBubble
    /\ emitted' = <<>>
    /\ UNCHANGED <<bubbles, animationTimer, bubbleTimer, width, height, nextId>>

\* expandBubble that clamps to the height only.
expandBubbleHeightOnly ==
    /\ newBubble' =
          IF newBubble # None
          THEN updateBrush([newBubble EXCEPT !.radius =
                   Min(newBubble.radius + RadiusStep, height \div CapDivisor)])
          ELSE newBubble
    /\ emitted' = <<>>
    /\ UNCHANGED <<bubbles, animationTimer, bubbleTimer, width, height, nextId>>

expandBubble ==
    /\ newBubble' =
          IF newBubble # None
          THEN updateBrush([newBubble EXCEPT !.radius =
                   Min(Min(newBubble.radius + RadiusStep, width \div CapDivisor),
                       height \div CapDivisor)])
          ELSE newBubble
    /\ emitted' = <<>>
    /\ UNCHANGED <<bubbles, animationTimer, bubbleTimer, width, height, nextId>>

\* The step of animate that leaves the bubble where it is.
moveBubbleStays(b) == [b EXCEPT !.y = b.y]

\* One bubble of the loop of animate: the bubble moved up by its speed.
moveBubble(b) == [b EXCEPT !.y = b.y - b.speed]

\* The test of animate with >= for >.
staysVisibleInclusive(b) == b.y + b.radius >= 0

\* The test of animate that keeps a moved bubble.
staysVisible(b) == b.y + b.radius > 0

\* The loop of animate over self.bubbles: the local list bubbles, the flag
\* left and the signals emitted so far.
RECURSIVE animateLoop(_, _, _, _)
animateLoop(rest, kept, left, sigs) ==
    IF rest = <<>>
    THEN [bubbles |-> kept, left |-> left, emitted |-> sigs]
    ELSE LET b == moveBubble(Head(rest))
         IN  IF staysVisible(b)
             THEN animateLoop(Tail(rest), Append(kept, b), left, sigs)
             ELSE animateLoop(Tail(rest), kept, TRUE, Append(sigs, BubbleLeft))

\* animate that emits the length of the list before the tick.
animateStaleCount ==
    /\ LET r == animateLoop(bubbles, <<>>, FALSE, <<>>)
       IN  /\ bubbles' = r.bubbles
           /\ emitted' = IF r.left
                         THEN Append(r.emitted, BubblesRemaining(Len(bubbles)))
                         ELSE r.emitted
    /\ UNCHANGED <<newBubble, animationTimer, bubbleTimer, width, height, nextId>>

\* animate that emits bubblesRemaining on every tick.
animateAlwaysEmits ==
    /\ LET r == animateLoop(bubbles, <<>>, FALSE, <<>>)
       IN  /\ bubbles' = r.bubbles
           /\ emitted' = Append(r.emitted, BubblesRemaining(Len(r.bubbles)))
    /\ UNCHANGED <<newBubble, animationTimer, bubbleTimer, width, height, nextId>>

\* BubblesWidget.animate: it tests no timer.
animate ==
    /\ LET r == animateLoop(bubbles, <<>>, FALSE, <<>>)
       IN  /\ bubbles' = r.bubbles
           /\ emitted' = IF r.left
                         THEN Append(r.emitted, BubblesRemaining(Len(r.bubbles)))
                         ELSE r.emitted
    /\ UNCHANGED <<newBubble, animationTimer, bubbleTimer, width, height, nextId>>

\* The loop of setBubbles inserting each new bubble at the front.
RECURSIVE setBubblesLoopPrepend(_, _, _, _)
setBubblesLoopPrepend(bs, value, rnd, id) ==
    IF Len(bs) < value
    THEN LET d == Head(rnd)
             nb == updateBrush(Bubble(id, d.x, d.y, d.radius, d.speed,
                                      d.innerColor, d.outerColor))
         IN  setBubblesLoopPrepend(<<nb>> \o bs, value, Tail(rnd), id + 1)
    ELSE bs

\* The loop of setBubbles with the radius drawn without its 4.0 offset.
RECURSIVE setBubblesLoopNoOffset(_, _, _, _)
setBubblesLoopNoOffset(bs, value, rnd, id) ==
    IF Len(bs) < value
    THEN LET d == Head(rnd)
             nb == updateBrush(Bubble(id, d.x, d.y, d.radius - 4, d.speed,
                                      d.innerColor, d.outerColor))
         IN  setBubblesLoopNoOffset(Append(bs, nb), value, Tail(rnd), id + 1)
    ELSE bs

\* The while loop of setBubbles: rnd[i] is the i-th random bubble drawn.
RECURSIVE setBubblesLoop(_, _, _, _)
setBubblesLoop(bs, value, rnd, id) ==
    IF Len(bs) < value
    THEN LET d == Head(rnd)
             nb == updateBrush(Bubble(id, d.x, d.y, d.radius, d.speed,
                                      d.innerColor, d.outerColor))
         IN  setBubblesLoop(Append(bs, nb), value, Tail(rnd), id + 1)
    ELSE bs

\* setBubbles that also drops the bubble being sized.
setBubblesDropsPending(v, rnd) ==
    LET value == Max(0, v)
    IN  /\ Len(rnd) = Max(0, value - Len(bubbles))
        /\ nextId + Len(rnd) - 1 <= MaxCreated
        /\ bubbles' = SubSeq(setBubblesLoop(bubbles, value, rnd, nextId), 1, value)
        /\ nextId' = nextId + Len(rnd)
        /\ newBubble' = None
        /\ emitted' = << BubblesRemaining(value) >>
        /\ UNCHANGED <<animationTimer, bubbleTimer, width, height>>

\* setBubbles without the clamp of the value to zero.
setBubblesNoClamp(v, rnd) ==
    LET value == v
    IN  /\ Len(rnd) = Max(0, value - Len(bubbles))
        /\ nextId + Len(rnd) - 1 <= MaxCreated
        /\ bubbles' = SubSeq(setBubblesLoop(bubbles, value, rnd, nextId), 1,
                             IF value >= 0 THEN value ELSE Len(bubbles) + value)
        /\ nextId' = nextId + Len(rnd)
        /\ emitted' = << BubblesRemaining(value) >>
        /\ UNCHANGED <<newBubble, animationTimer, bubbleTimer, width, height>>

setBubbles(v, rnd) ==
    LET value == Max(0, v)
    IN  /\ Len(rnd) = Max(0, value - Len(bubbles))
        /\ nextId + Len(rnd) - 1 <= MaxCreated
        /\ bubbles' = SubSeq(setBubblesLoop(bubbles, value, rnd, nextId), 1, value)
        /\ nextId' = nextId + Len(rnd)
        /\ emitted' = << BubblesRemaining(value) >>
        /\ UNCHANGED <<newBubble, animationTimer, bubbleTimer, width, height>>

\* stop that stops both timers.
stopBothTimers ==
    /\ animationTimer' = FALSE
    /\ bubbleTimer' = FALSE
    /\ emitted' = <<>>
    /\ UNCHANGED <<bubbles, newBubble, width, height, nextId>>

stop ==
    /\ animationTimer' = FALSE
    /\ emitted' = <<>>
    /\ UNCHANGED <<bubbles, newBubble, bubbleTimer, width, height, nextId>>

start ==
    /\ animationTimer' = TRUE
    /\ emitted' = <<>>
    /\ UNCHANGED <<bubbles, newBubble, bubbleTimer, width, height, nextId>>

\* Bubble.drawBubble: the ellipse drawn, after the translation of the painter.
drawBubble(b) ==
    [ id |-> b.id, x |-> b.x - b.radius, y |-> b.y - b.radius,
      w |-> 2 * b.radius, h |-> 2 * b.radius, brush |-> b.brush ]

\* QRectF.intersects for rectangles <<x, y, width, height>> of width and
\* height >= 0: an empty rectangle intersects nothing, and rectangles that
\* only touch do not intersect.
intersects(a, b) ==
    /\ a[3] # 0 /\ a[4] # 0 /\ b[3] # 0 /\ b[4] # 0
    /\ ~(a[1] >= b[1] + b[3] \/ b[1] >= a[1] + a[3])
    /\ ~(a[2] >= b[2] + b[4] \/ b[2] >= a[2] + a[4])

\* The rectangle paintEvent tests against the region of the event.
bubbleRect(b) == <<b.x - b.radius, b.y - b.radius, 2 * b.radius, 2 * b.radius>>

\* The loop of paintEvent drawing every bubble, whatever the region.
RECURSIVE paintLoopNoCulling(_, _, _)
paintLoopNoCulling(rest, rect, drawn) ==
    IF rest = <<>>
    THEN drawn
    ELSE paintLoopNoCulling(Tail(rest), rect, Append(drawn, drawBubble(Head(rest))))

\* The loop of paintEvent over self.bubbles.
RECURSIVE paintLoop(_, _, _)
paintLoop(rest, rect, drawn) ==
    IF rest = <<>>
    THEN drawn
    ELSE paintLoop(Tail(rest), rect,
                   IF intersects(bubbleRect(Head(rest)), rect)
                   THEN Append(drawn, drawBubble(Head(rest)))
                   ELSE drawn)

paintEvent(rect) ==
    /\ painted' = LET drawn == paintLoop(bubbles, rect, <<>>)
                  IN  IF newBubble # None
                      THEN Append(drawn, drawBubble(newBubble))
                      ELSE drawn
    /\ emitted' = <<>>
    /\ UNCHANGED <<bubbles, newBubble, animationTimer, bubbleTimer,
                   width, height, nextId>>

\* BubblesWidget.getBubbles
getBubbles == Len(bubbles)

\* ------------------------------------------------------------------- steps
\* Only paintEvent draws: every other handler leaves the painter alone.
MousePress ==
    \E button \in Buttons, pos \in Points, speed \in Speeds, c1 \in Colors, c2 \in Colors :
        mousePressEvent(button, pos, speed, c1, c2) /\ painted' = <<>>

MouseMove == \E pos \in Points : mouseMoveEvent(pos) /\ painted' = <<>>

MouseRelease == \E button \in Buttons : mouseReleaseEvent(button) /\ painted' = <<>>

ExpandBubble == expandBubble /\ painted' = <<>>

\* animate is the timeout slot of animation_timer, the only caller it has:
\* a stopped timer delivers no timeout.
Animate == animationTimer /\ animate /\ painted' = <<>>

RandomDraws(n) == [1..n -> RandomBubbles]

\* Values passed to setBubbles.
Values == {-2, -1} \cup (0..MaxValue)

SetBubbles ==
    \E v \in Values :
        \E rnd \in RandomDraws(Max(0, Max(0, v) - Len(bubbles))) :
            setBubbles(v, rnd) /\ painted' = <<>>

ResizeEvent == \E size \in Sizes : Resize(size[1], size[2]) /\ painted' = <<>>

Stop == stop /\ painted' = <<>>

Start == start /\ painted' = <<>>

PaintEvent == \E rect \in PaintRects : paintEvent(rect)

Next ==
    \/ MousePress
    \/ MouseMove
    \/ MouseRelease
    \/ ExpandBubble
    \/ Animate
    \/ SetBubbles
    \/ ResizeEvent
    \/ Stop
    \/ Start

\* The handlers that change the state of the widget.  paintEvent is not one
\* of them: it only draws (PaintSpec below).
Spec == Init /\ [][Next]_vars

\* The animation timer is periodic (setSingleShot(False)): while it is
\* active its timeout, and so animate, keeps occurring.
\* The handlers that read or write the collection, the pending bubble or
\* the timers; the viewport keeps its size.
LiveNext ==
    \/ MousePress
    \/ MouseMove
    \/ MouseRelease
    \/ ExpandBubble
    \/ Animate
    \/ SetBubbles
    \/ Stop
    \/ Start

\* The widget at its smallest sampled width.
LiveInit == Init /\ width = MinimumSize

FairSpec == LiveInit /\ [][LiveNext]_vars /\ WF_vars(Animate)

\* Painting between the handlers that change what is painted: the
\* collection and the pending bubble.
PaintNext ==
    \/ MousePress
    \/ MouseMove
    \/ MouseRelease
    \/ ExpandBubble
    \/ Animate
    \/ SetBubbles
    \/ PaintEvent

PaintSpec == LiveInit /\ [][PaintNext]_vars

\* ================================================================ properties
IsPending == newBubble # None

\* The identities of the bubbles of a sequence, and the place of one of them.
Ids(seq) == { seq[i].id : i \in 1..Len(seq) }
IndexOf(seq, id) == CHOOSE i \in 1..Len(seq) : seq[i].id = id

\* C1: on every animation tick, each bubble of the collection moves up by
\* exactly its own speed with x, radius and speed unchanged, is absent
\* afterwards iff its new y + radius <= 0, and the bubbles that stay keep
\* their relative order.
C1_AnimateMovesAndCulls ==
    [][animate =>
        /\ Ids(bubbles') \subseteq Ids(bubbles)
        /\ \A i \in 1..Len(bubbles) :
              LET b == bubbles[i]
                  newY == b.y - b.speed
              IN  /\ (b.id \notin Ids(bubbles')) <=> (newY + b.radius <= 0)
                  /\ b.id \in Ids(bubbles') =>
                        LET a == bubbles'[IndexOf(bubbles', b.id)]
                        IN  /\ a.y = newY
                            /\ a.x = b.x
                            /\ a.radius = b.radius
                            /\ a.speed = b.speed
        /\ \A j1, j2 \in 1..Len(bubbles') :
              j1 < j2 => IndexOf(bubbles, bubbles'[j1].id)
                            < IndexOf(bubbles, bubbles'[j2].id)
    ]_vars

\* A tick has just dropped one bubble and kept another.
C1_Witness ==
    /\ Len(emitted) = 2
    /\ emitted[1][1] = "bubbleLeft"
    /\ emitted[2][1] = "bubblesRemaining"
    /\ Len(bubbles) = 1

\* C2: setBubbles(N) on a collection of M bubbles leaves exactly the first N
\* original bubbles in order when N <= M, and exactly N bubbles whose first M
\* are the original ones, unchanged and in order, when N > M.
C2_SetBubblesKeepsPrefix ==
    [][\A v \in 0..MaxValue : \A rnd \in RandomDraws(Max(0, v - Len(bubbles))) :
          setBubbles(v, rnd) =>
              /\ Len(bubbles') = v
              /\ \A i \in 1..Len(bubbles) : i <= v => bubbles'[i] = bubbles[i]
    ]_vars

\* A bubble committed by a gesture is first and a random bubble was added
\* after it by setBubbles(2).
C2_Witness ==
    /\ Len(bubbles) = 2
    /\ bubbles[1].radius >= 8
    /\ bubbles[2].x = 199
    /\ Len(emitted) = 1
    /\ emitted[1][1] = "bubblesRemaining"
    /\ emitted[1][2] = 2

\* C3: a release of the primary button while a bubble is pending appends it,
\* as it is, after the bubbles of the collection, clears the pending bubble,
\* stops the growth timer and emits one bubblesRemaining; while none is
\* pending it changes nothing and emits nothing.
C3_ReleaseCommits ==
    [][mouseReleaseEvent("LeftButton") =>
        IF IsPending
        THEN /\ Len(bubbles') = Len(bubbles) + 1
             /\ bubbles'[Len(bubbles')] = newBubble
             /\ \A i \in 1..Len(bubbles) : bubbles'[i] = bubbles[i]
             /\ newBubble' = None
             /\ bubbleTimer' = FALSE
             /\ Len(emitted') = 1
             /\ emitted'[1][1] = "bubblesRemaining"
        ELSE /\ UNCHANGED <<bubbles, newBubble, animationTimer, bubbleTimer,
                            width, height>>
             /\ emitted' = <<>>
    ]_vars

\* A grown bubble has just been committed after an earlier one.
C3_Witness ==
    /\ ~IsPending
    /\ ~bubbleTimer
    /\ Len(bubbles) = 2
    /\ bubbles[2].radius = 12
    /\ bubbles[2].y = 10
    /\ Len(emitted) = 1
    /\ emitted[1][1] = "bubblesRemaining"

\* C4: a press of the primary button while no bubble is pending creates a
\* pending bubble at the press point with radius 4.0 and a speed of [1, 8],
\* starts the growth timer and leaves the collection alone.
C4_PressCreatesPending ==
    [][\A pos \in Points, speed \in Speeds, c1 \in Colors, c2 \in Colors :
          (~IsPending /\ mousePressEvent("LeftButton", pos, speed, c1, c2)) =>
              /\ newBubble' # None
              /\ newBubble'.x = pos[1]
              /\ newBubble'.y = pos[2]
              /\ newBubble'.radius = 4
              /\ newBubble'.speed >= 1
              /\ newBubble'.speed <= 8
              /\ bubbleTimer' = TRUE
              /\ bubbles' = bubbles
    ]_vars

\* A press has just created a pending bubble over a non-empty collection.
C4_Witness ==
    /\ IsPending
    /\ newBubble.radius = 4
    /\ newBubble.x = 100
    /\ bubbleTimer
    /\ Len(bubbles) = 1
    /\ emitted = <<>>

\* C5: a press of any button while a bubble is pending leaves the pending
\* bubble (identity, position, radius, speed), the collection and the
\* growth timer unchanged.
C5_PressWhilePendingIgnored ==
    [][\A button \in Buttons, pos \in Points, speed \in Speeds,
          c1 \in Colors, c2 \in Colors :
          (IsPending /\ mousePressEvent(button, pos, speed, c1, c2)) =>
              UNCHANGED <<newBubble, bubbles, bubbleTimer, nextId>>
    ]_vars

\* A grown pending bubble, away from every press point's start, with the
\* timer running: the state a further press leaves as it is.
C5_Witness ==
    /\ IsPending
    /\ newBubble.radius = 16
    /\ bubbleTimer
    /\ nextId <= MaxCreated
    /\ emitted = <<>>

\* C6 as stated: between a press and its release the pending bubble's
\* radius never decreases from one state to the next.
C6_RadiusNeverDecreases ==
    [][(IsPending /\ newBubble' # None) =>
          newBubble'.radius >= newBubble.radius]_vars

\* C6 amended: the radius of the pending bubble decreases only at a growth
\* tick taken while the radius is above the cap min(width, height)/8 of the
\* current viewport, and then it becomes exactly that cap.
C6_RadiusDecreasesOnlyToCap ==
    [][(IsPending /\ newBubble' # None
          /\ newBubble'.radius < newBubble.radius) =>
              /\ width' = width /\ height' = height
              /\ newBubble.radius * 8 > width \/ newBubble.radius * 8 > height
              /\ newBubble'.radius * 8 <= width
              /\ newBubble'.radius * 8 <= height
              /\ newBubble'.radius * 8 = width \/ newBubble'.radius * 8 = height
              /\ newBubble'.id = newBubble.id
    ]_vars

\* The viewport has shrunk under a grown pending bubble.
C6_Witness ==
    /\ IsPending
    /\ newBubble.radius = 26
    /\ width = 200

\* C7 as stated: in every state the pending bubble's radius is at most
\* min(width, height)/8 of the current viewport.
C7_RadiusWithinCap ==
    IsPending => /\ newBubble.radius * 8 <= width
                 /\ newBubble.radius * 8 <= height

\* C7 amended: right after the press that creates it and right after every
\* growth tick, the pending bubble's radius is at most min(width, height)/8
\* of the viewport of that moment.
C7_RadiusWithinCapAfterGrowth ==
    [][((~IsPending \/ expandBubble) /\ newBubble' # None) =>
          /\ newBubble'.radius * 8 <= width'
          /\ newBubble'.radius * 8 <= height'
    ]_vars

\* A growth tick has clamped the radius to the cap set by the height.
C7_Witness ==
    /\ IsPending
    /\ newBubble.radius * 8 = height
    /\ newBubble.radius * 8 < width

\* C8: a growth tick with a pending bubble sets its radius to
\* min(radius + 4.0, width/8, height/8) of the viewport of that tick and
\* leaves its position and speed, the collection and the gesture state
\* alone; without a pending bubble it changes nothing.
C8_GrowthTick ==
    [][expandBubble =>
        IF IsPending
        THEN LET r == newBubble.radius + 4
                 n == newBubble'.radius
             IN  /\ newBubble' # None
                 /\ n <= r /\ n * 8 <= width /\ n * 8 <= height
                 /\ n = r \/ n * 8 = width \/ n * 8 = height
                 /\ newBubble'.x = newBubble.x
                 /\ newBubble'.y = newBubble.y
                 /\ newBubble'.speed = newBubble.speed
                 /\ newBubble'.id = newBubble.id
                 /\ UNCHANGED <<bubbles, bubbleTimer, width, height>>
        ELSE UNCHANGED <<bubbles, newBubble, animationTimer, bubbleTimer,
                         width, height>>
    ]_vars

\* One growth tick after the press: radius 8.0.
C8_Witness ==
    /\ IsPending
    /\ newBubble.radius = 8
    /\ newBubble.brush.radius = 8
    /\ bubbleTimer

\* The bubbles of the collection an animation tick is about to drop.
Departing == { i \in 1..Len(bubbles) :
                  bubbles[i].y - bubbles[i].speed + bubbles[i].radius <= 0 }

\* C9: an animation tick emits one bubbleLeft per bubble it drops, then
\* exactly one bubblesRemaining iff it dropped at least one, and nothing
\* at all when it drops none.
C9_AnimateSignals ==
    [][animate =>
        LET n == Cardinality(Departing)
        IN  /\ Len(emitted') = IF n > 0 THEN n + 1 ELSE 0
            /\ \A k \in 1..Len(emitted') :
                  emitted'[k][1] = IF k <= n THEN "bubbleLeft"
                                             ELSE "bubblesRemaining"
    ]_vars

\* A tick has just dropped two bubbles at once.
C9_Witness ==
    /\ Len(emitted) = 3
    /\ emitted[1][1] = "bubbleLeft"
    /\ emitted[2][1] = "bubbleLeft"
    /\ emitted[3][1] = "bubblesRemaining"

\* C10: every bubble, committed or pending, has radius > 0 and speed > 0.
C10_PositiveRadiusAndSpeed ==
    /\ \A i \in 1..Len(bubbles) : bubbles[i].radius > 0 /\ bubbles[i].speed > 0
    /\ IsPending => newBubble.radius > 0 /\ newBubble.speed > 0

\* A random bubble in the collection and a pending bubble grown to the cap.
C10_Witness ==
    /\ Len(bubbles) = 1
    /\ bubbles[1].x = 0
    /\ IsPending
    /\ newBubble.radius = 25

\* C11: setBubbles with a negative value leaves the collection and emits
\* the bubblesRemaining payload that setBubbles(0) leaves and emits from
\* the same state: an empty collection and the payload 0.
C11_NegativeCountIsZero ==
    [][\A v \in Values : (v < 0 /\ setBubbles(v, <<>>)) =>
          /\ setBubbles(0, <<>>)
          /\ bubbles' = <<>>
          /\ emitted' = << <<"bubblesRemaining", 0>> >>
          /\ UNCHANGED <<newBubble, animationTimer, bubbleTimer, width, height>>
    ]_vars

\* setBubbles has just emptied the collection during a gesture.
C11_Witness ==
    /\ bubbles = <<>>
    /\ nextId = 3
    /\ IsPending
    /\ Len(emitted) = 1
    /\ emitted[1][1] = "bubblesRemaining"
    /\ emitted[1][2] = 0

\* C12: a pointer move while a bubble is pending sets its position to the
\* pointer location and leaves its radius and speed, the collection and
\* the gesture state alone; while none is pending it changes no state.
C12_MoveFollowsPointer ==
    [][\A pos \in Points : mouseMoveEvent(pos) =>
          IF IsPending
          THEN /\ newBubble' # None
               /\ newBubble'.x = pos[1]
               /\ newBubble'.y = pos[2]
               /\ newBubble'.radius = newBubble.radius
               /\ newBubble'.speed = newBubble.speed
               /\ newBubble'.id = newBubble.id
               /\ UNCHANGED <<bubbles, bubbleTimer, animationTimer>>
          ELSE UNCHANGED <<bubbles, newBubble, animationTimer, bubbleTimer,
                           width, height, nextId>>
    ]_vars

\* A bubble pressed at (100, 10) and grown has been moved to (10, 3).
C12_Witness ==
    /\ IsPending
    /\ newBubble.speed = 7
    /\ newBubble.radius = 20
    /\ newBubble.x = 10
    /\ newBubble.y = 3
    /\ newBubble.id = 1

\* C13: stop and start change the animation timer only and are idempotent,
\* and while the animation timer is stopped no bubble of the collection
\* moves or departs.
C13_StartStop ==
    [][/\ stop => /\ animationTimer' = FALSE
                  /\ UNCHANGED <<bubbles, newBubble, bubbleTimer, width, height>>
       /\ start => /\ animationTimer' = TRUE
                   /\ UNCHANGED <<bubbles, newBubble, bubbleTimer, width, height>>
       /\ (stop /\ ~animationTimer) => animationTimer' = animationTimer
       /\ (start /\ animationTimer) => animationTimer' = animationTimer
       /\ ~animationTimer =>
             /\ \A k \in 1..Len(emitted') : emitted'[k][1] # "bubbleLeft"
             /\ \A i \in 1..Len(bubbles), j \in 1..Len(bubbles') :
                   bubbles'[j].id = bubbles[i].id => bubbles'[j] = bubbles[i]
    ]_vars

\* The clock is stopped while a gesture bubble, grown and committed, sits
\* in the collection and another gesture is under way.
C13_Witness ==
    /\ ~animationTimer
    /\ bubbleTimer
    /\ IsPending
    /\ newBubble.radius = 8
    /\ Len(bubbles) = 1
    /\ bubbles[1].radius = 8
    /\ bubbles[1].y = 10

\* The places of the collection whose bounding box [x - r, y - r, 2r, 2r]
\* overlaps a region.
Visible(rect) ==
    { i \in 1..Len(bubbles) :
        LET b == bubbles[i]
        IN  /\ Max(b.x - b.radius, rect[1]) < Min(b.x + b.radius, rect[1] + rect[3])
            /\ Max(b.y - b.radius, rect[2]) < Min(b.y + b.radius, rect[2] + rect[4]) }

\* C14: paintEvent draws the bubbles of the collection whose bounding box
\* intersects the region, in collection order, then the pending bubble if
\* there is one, and changes no state of the widget or of a bubble.
C14_PaintOrder ==
    [][\A rect \in PaintRects : paintEvent(rect) =>
          LET vis == Visible(rect)
              n == Cardinality(vis)
          IN  /\ Len(painted') = n + (IF IsPending THEN 1 ELSE 0)
              /\ \A i \in vis :
                    LET k == Cardinality({ j \in vis : j <= i })
                        b == bubbles[i]
                    IN  /\ painted'[k].id = b.id
                        /\ painted'[k].x = b.x - b.radius
                        /\ painted'[k].y = b.y - b.radius
                        /\ painted'[k].w = 2 * b.radius
                        /\ painted'[k].brush = b.brush
              /\ IsPending =>
                    /\ painted'[n + 1].id = newBubble.id
                    /\ painted'[n + 1].x = newBubble.x - newBubble.radius
                    /\ painted'[n + 1].w = 2 * newBubble.radius
              /\ UNCHANGED <<bubbles, newBubble, animationTimer, bubbleTimer,
                             width, height, nextId>>
    ]_vars

\* A paint has skipped the first bubble of the collection and drawn the
\* second.
C14_Witness ==
    /\ Len(bubbles) = 2
    /\ Len(painted) = 1
    /\ painted[1].id = bubbles[2].id

\* C15: while a bubble is pending, a release of a button other than the
\* primary one leaves the pending bubble, the collection and the growth
\* timer unchanged and emits nothing.
C15_OtherButtonReleaseIgnored ==
    [][(IsPending /\ mouseReleaseEvent("RightButton")) =>
          /\ UNCHANGED <<newBubble, bubbles, bubbleTimer>>
          /\ emitted' = <<>>
    ]_vars

\* C16: the growth timer is running iff a bubble is pending.
C16_TimerIffPending == bubbleTimer <=> IsPending

\* A second gesture has started, with the animation stopped, after the
\* first was committed.
C16_Witness ==
    /\ IsPending
    /\ bubbleTimer
    /\ ~animationTimer
    /\ newBubble.id = 2
    /\ newBubble.radius = 4
    /\ Len(bubbles) = 1
    /\ bubbles[1].id = 1

\* C17: every bubblesRemaining emitted carries the number of bubbles of the
\* collection right after the operation that emitted it, and setBubbles
\* emits exactly one on every call, also when the count does not change.
C17_RemainingPayload ==
    [][/\ \A k \in 1..Len(emitted') :
             emitted'[k][1] = "bubblesRemaining" => emitted'[k][2] = Len(bubbles')
       /\ \A v \in Values : \A rnd \in RandomDraws(Max(0, v - Len(bubbles))) :
             setBubbles(v, rnd) =>
                 /\ Len(emitted') = 1
                 /\ emitted'[1][1] = "bubblesRemaining"
    ]_vars

\* A tick during a gesture has dropped one of two bubbles and reported 1.
C17_Witness ==
    /\ Len(emitted) = 2
    /\ emitted[2][1] = "bubblesRemaining"
    /\ emitted[2][2] = 1
    /\ Len(bubbles) = 1
    /\ animationTimer
    /\ nextId = 3

\* The brush of a bubble is the one built from its current radius and colours.
FreshBrush(b) ==
    /\ b.brush.radius = b.radius
    /\ b.brush.center = <<b.radius, b.radius>>
    /\ b.brush.stops[1] = <<0, <<255, 255, 255, 255>> >>
    /\ b.brush.stops[2] = <<25, b.innerColor>>
    /\ b.brush.stops[3] = <<100, b.outerColor>>

\* C18: between any two events, the cached brush of every bubble, committed
\* or pending, is the one computed from its current radius, inner colour
\* and outer colour.
C18_BrushNeverStale ==
    /\ \A i \in 1..Len(bubbles) : FreshBrush(bubbles[i])
    /\ IsPending => FreshBrush(newBubble)

\* A grown bubble was committed and another has grown to the cap.
C18_Witness ==
    /\ Len(bubbles) = 1
    /\ bubbles[1].radius = 12
    /\ IsPending
    /\ newBubble.radius = 25
    /\ newBubble.brush.radius = 25

\* C19: the pending bubble is not an element of the collection and is not
\* counted by getBubbles, and an animation tick or a setBubbles (to 0 too)
\* leaves the pending bubble and the running growth timer as they are.
C19_PendingApart ==
    [][/\ newBubble' # None =>
             /\ newBubble'.id \notin Ids(bubbles')
             /\ getBubbles' = Cardinality(Ids(bubbles'))
       /\ animate => UNCHANGED <<newBubble, bubbleTimer>>
       /\ \A v \in Values : \A rnd \in RandomDraws(Max(0, v - Len(bubbles))) :
             setBubbles(v, rnd) => UNCHANGED <<newBubble, bubbleTimer>>
    ]_vars

\* A tick has moved a random bubble above the top edge while a gesture
\* bubble keeps growing.
C19_Witness ==
    /\ IsPending
    /\ newBubble.radius = 12
    /\ bubbleTimer
    /\ Len(bubbles) = 1
    /\ bubbles[1].y = -4

\* C20: with the animation ticks kept occurring, every bubble of the
\* collection is eventually no longer in it unless the animation timer is
\* stopped; and if from some point on the timer stays active and no release
\* or setBubbles changes the collection, the collection eventually becomes
\* empty and stays empty.
C20_BubblesEventuallyLeave ==
    /\ \A id \in 1..MaxCreated :
          (id \in Ids(bubbles)) ~> (id \notin Ids(bubbles) \/ ~animationTimer)
    /\ \/ []<><<MouseRelease \/ SetBubbles>>_bubbles
       \/ []<>(~animationTimer)
       \/ <>[](bubbles = <<>>)

\* The last bubble has just departed through the top with the clock running.
C20_Witness ==
    /\ bubbles = <<>>
    /\ ~IsPending
    /\ animationTimer
    /\ Len(emitted) = 2
    /\ emitted[1][1] = "bubbleLeft"
    /\ emitted[2][2] = 0

====
